---------------------------- MODULE Spec2Model ----------------------------
(***************************************************************************)
(* Model of the ListObjectsV2 codec of mountpoint-s3-client                *)
(* (s3_crt_client/list_objects.rs) and of the CRT return-code translator   *)
(* of aws-crt-s3 (lib.rs).                                                 *)
(*                                                                         *)
(* XML documents are trees of nodes as xmltree builds them: an element has *)
(* a name and an ordered list of children, each a text node or an element. *)
(* Rust's Option is a sequence of length 0 or 1, Result is a record with   *)
(* the field ok and either val or err.                                     *)
(***************************************************************************)
EXTENDS Integers, Sequences, FiniteSets, TLC

VARIABLES
    content,          \* SpecObject: the Contents element handed to the decoder
    object_info,      \* SpecObject: None, or Some(result of the decode)
    document,         \* SpecParse: the response root as received
    element,          \* SpecParse: the root, as parse_result_from_xml mutates it
    list_result,      \* SpecParse: None, or Some(result of the parse)
    meta_result,      \* SpecClassify: the MetaRequestResult handed to the classifier
    classification,   \* SpecClassify: None, or Some(what the classifier returned)
    last_error,       \* SpecCrt: the CRT's last-error slot of each thread
    task,             \* SpecCrt: each task's thread, position and values
    list_args,        \* SpecList: the arguments of the list_objects call
    fault,            \* SpecList: the collaborator call that fails in this call
    list_pc,          \* SpecList: where the call is
    meta_request,     \* SpecList: the requests handed to the dispatcher
    response,         \* SpecList: None, or Some(what the dispatcher resolved with)
    parsed,           \* SpecList: the bodies handed to the parser
    outcome           \* SpecList: None, or Some(what the call returned)

objVars   == <<content, object_info>>
parseVars == <<document, element, list_result>>
clsVars   == <<meta_result, classification>>
crtVars   == <<last_error, task>>
listVars  == <<list_args, fault, list_pc, meta_request, response, parsed, outcome>>
vars      == <<objVars, parseVars, clsVars, crtVars, listVars>>

---------------------------------------------------------------------------
(* Bounds of the model *)

\* largest number of ChecksumAlgorithm children of a Contents element
MaxAlgorithms == 2
\* largest number of Contents and CommonPrefixes children of a response root
MaxEntries == 3
\* largest number of tokens of an error response body
MaxBodyTokens == 5
\* the CRT diagnostics are the codes 1..MaxError
MaxError == 2
\* the integers a native call may return are -MaxCode..MaxCode
MaxCode == 2

---------------------------------------------------------------------------
(* Option and Result *)

None == <<>>
Some(x) == <<x>>
Ok(v) == [ok |-> TRUE, val |-> v]
Err(e) == [ok |-> FALSE, err |-> e]

\* the ? operator: the error of r as it is, or the rest applied to its value
AndThen(r, Rest(_)) == IF r.ok THEN Rest(r.val) ELSE r
\* Result::map_err
MapErr(r, e) == IF r.ok THEN r ELSE Err(e)
\* Option::ok_or_else
OkOrElse(o, e) == IF Len(o) = 0 THEN Err(e) ELSE Ok(o[1])
\* Result::ok
ResultOk(r) == IF r.ok THEN Some(r.val) ELSE None

SeqsUpTo(S, n) == UNION {[1..k -> S] : k \in 0..n}

---------------------------------------------------------------------------
(* xmltree nodes *)

Text(s) == [kind |-> "text", name |-> "", text |-> s, children |-> <<>>]
Elem(n, ch) == [kind |-> "elem", name |-> n, text |-> "", children |-> ch]
\* <n>s</n>
Leaf(n, s) == Elem(n, <<Text(s)>>)
\* stands for "no element" in errors that carry none
NoNode == Elem("", <<>>)

RECURSIVE ConcatText(_)
ConcatText(ts) ==
    IF ts = <<>> THEN "" ELSE ts[1].text \o ConcatText(Tail(ts))

\* xmltree::Element::get_text: the text children concatenated, None if there are none
Element_get_text(e) ==
    LET ts == SelectSeq(e.children, LAMBDA n : n.kind = "text")
    IN  IF Len(ts) = 0 THEN None ELSE Some(ConcatText(ts))

\* index of the first child element called name, 0 if there is none
FirstChildIndex(e, name) ==
    LET hits == {i \in 1..Len(e.children) :
                    e.children[i].kind = "elem" /\ e.children[i].name = name}
    IN  IF hits = {} THEN 0 ELSE CHOOSE i \in hits : \A j \in hits : i <= j

\* xmltree::Element::get_child
Element_get_child(e, name) ==
    LET i == FirstChildIndex(e, name)
    IN  IF i = 0 THEN None ELSE Some(e.children[i])

\* xmltree::Element::take_child: removes the first child called name and
\* returns it; rest is the element afterwards
Element_take_child(e, name) ==
    LET i == FirstChildIndex(e, name)
    IN  IF i = 0
        THEN [child |-> None, rest |-> e]
        ELSE [child |-> Some(e.children[i]),
              rest  |-> [e EXCEPT !.children =
                            SubSeq(e.children, 1, i - 1)
                            \o SubSeq(e.children, i + 1, Len(e.children))]]

---------------------------------------------------------------------------
(* ParseError *)

InvalidResponse(node, problem) ==
    [kind |-> "InvalidResponse", node |-> node, field |-> problem]
MissingField(node, name) ==
    [kind |-> "MissingField", node |-> node, field |-> name]
BoolError(name) == [kind |-> "Bool", node |-> NoNode, field |-> name]
IntError(name) == [kind |-> "Int", node |-> NoNode, field |-> name]
OffsetDateTimeError(name) ==
    [kind |-> "OffsetDateTime", node |-> NoNode, field |-> name]

---------------------------------------------------------------------------
(* Field access *)

get_text(e) ==
    OkOrElse(Element_get_text(e), InvalidResponse(e, "field has no text"))

get_child(e, name) ==
    OkOrElse(Element_get_child(e, name), MissingField(e, name))

get_field(e, name) == AndThen(get_child(e, name), get_text)

---------------------------------------------------------------------------
(* Conversions of the standard library and of the time crate, on the texts *)
(* the model draws from.  Any text outside a table is one the conversion   *)
(* rejects.                                                                *)

\* bool::from_str accepts exactly "true" and "false"
bool_from_str(s) ==
    CASE s = "true"  -> Ok(TRUE)
      [] s = "false" -> Ok(FALSE)
      [] OTHER       -> Err("ParseBoolError")

\* u64::from_str: decimal digits with an optional leading +
u64_from_str(s) ==
    CASE s = "0"   -> Ok(0)
      [] s = "10"  -> Ok(10)
      [] s = "+10" -> Ok(10)
      [] s = "010" -> Ok(10)
      [] OTHER     -> Err("ParseIntError")

\* OffsetDateTime::parse(_, &Rfc3339): the instant, in seconds since the epoch
OffsetDateTime_parse(s) ==
    CASE s = "2023-01-01T00:00:00Z"      -> Ok(1672531200)
      [] s = "2023-01-01T01:00:00+01:00" -> Ok(1672531200)
      [] s = "2023-06-01T00:00:00Z"      -> Ok(1685577600)
      [] OTHER                           -> Err("time::error::Parse")

---------------------------------------------------------------------------
(* Per-object decode *)

InProgress == [status |-> "InProgress", expiry |-> 0]
Restored(t) == [status |-> "Restored", expiry |-> t]

\* lines 106-107
IsRestoreInProgress(restore_status) ==
    AndThen(get_field(restore_status, "IsRestoreInProgress"),
            LAMBDA s : MapErr(bool_from_str(s), BoolError("IsRestoreInProgress")))

\* lines 113-114
RestoreExpiryDate(restore_status) ==
    AndThen(get_field(restore_status, "RestoreExpiryDate"),
            LAMBDA s : MapErr(OffsetDateTime_parse(s),
                              OffsetDateTimeError("RestoreExpiryDate")))

\* mutant: reads RestoreExpiryDate before looking at IsRestoreInProgress
parse_restore_status_Eager(e) ==
    LET rs == Element_get_child(e, "RestoreStatus")
    IN  IF Len(rs) = 0 THEN Ok(None)
        ELSE AndThen(RestoreExpiryDate(rs[1]),
                 LAMBDA expiry :
                     AndThen(IsRestoreInProgress(rs[1]),
                         LAMBDA restore_in_progress :
                             IF restore_in_progress
                             THEN Ok(Some(InProgress))
                             ELSE Ok(Some(Restored(expiry)))))

parse_restore_status(e) ==
    LET rs == Element_get_child(e, "RestoreStatus")
    IN  IF Len(rs) = 0 THEN Ok(None)
        ELSE AndThen(IsRestoreInProgress(rs[1]),
                 LAMBDA restore_in_progress :
                     IF restore_in_progress
                     THEN Ok(Some(InProgress))
                     ELSE AndThen(RestoreExpiryDate(rs[1]),
                              LAMBDA expiry : Ok(Some(Restored(expiry)))))

Known(a) == [alg |-> a, text |-> ""]
Unknown(s) == [alg |-> "Unknown", text |-> s]

\* mutant: matches the names without regard to case
ChecksumAlgorithmOf_IgnoreCase(algo_string) ==
    CASE algo_string \in {"CRC64NVME", "crc64nvme"} -> Known("Crc64nvme")
      [] algo_string \in {"CRC32", "crc32"}         -> Known("Crc32")
      [] algo_string \in {"CRC32C", "crc32c"}       -> Known("Crc32c")
      [] algo_string \in {"SHA1", "sha1"}           -> Known("Sha1")
      [] algo_string \in {"SHA256", "sha256"}       -> Known("Sha256")
      [] OTHER                                      -> Unknown(algo_string)

\* the match of parse_checksum_algorithm
ChecksumAlgorithmOf(algo_string) ==
    CASE algo_string = "CRC64NVME" -> Known("Crc64nvme")
      [] algo_string = "CRC32"     -> Known("Crc32")
      [] algo_string = "CRC32C"    -> Known("Crc32c")
      [] algo_string = "SHA1"      -> Known("Sha1")
      [] algo_string = "SHA256"    -> Known("Sha256")
      [] OTHER                     -> Unknown(algo_string)

\* the while loop of parse_checksum_algorithm
RECURSIVE ChecksumLoop(_, _)
ChecksumLoop(e, algorithms) ==
    LET t == Element_take_child(e, "ChecksumAlgorithm")
    IN  IF Len(t.child) = 0 THEN Ok(algorithms)
        ELSE AndThen(get_text(t.child[1]),
                 LAMBDA algo_string :
                     ChecksumLoop(t.rest,
                         Append(algorithms, ChecksumAlgorithmOf(algo_string))))

parse_checksum_algorithm(e) == ChecksumLoop(e, <<>>)

\* lines 142-144
Size(e) ==
    AndThen(get_field(e, "Size"),
            LAMBDA size : MapErr(u64_from_str(size), IntError("Size")))

\* lines 146-151
LastModified(e) ==
    AndThen(get_field(e, "LastModified"),
            LAMBDA last_modified :
                MapErr(OffsetDateTime_parse(last_modified),
                       OffsetDateTimeError("LastModified")))

parse_object_info_from_xml(e) ==
    AndThen(get_field(e, "Key"), LAMBDA key :
    AndThen(Size(e), LAMBDA size :
    AndThen(LastModified(e), LAMBDA last_modified :
    AndThen(Ok(ResultOk(get_field(e, "StorageClass"))), LAMBDA storage_class :
    AndThen(parse_restore_status(e), LAMBDA restore_status :
    AndThen(get_field(e, "ETag"), LAMBDA etag :
    AndThen(parse_checksum_algorithm(e), LAMBDA checksum_algorithms :
        Ok([key |-> key,
            size |-> size,
            last_modified |-> last_modified,
            storage_class |-> storage_class,
            restore_status |-> restore_status,
            etag |-> etag,
            checksum_algorithms |-> checksum_algorithms]))))))))

---------------------------------------------------------------------------
(* Whole-response parse.  Each loop returns its result and the root        *)
(* element as its take_child calls have left it.                           *)

\* the ? operator inside a loop over the root element
AndThenAt(r, rest, Rest(_)) ==
    IF r.ok THEN Rest(r.val) ELSE [res |-> r, element |-> rest]

\* mutant: collects the objects in reverse document order
RECURSIVE ContentsLoop_Reversed(_, _)
ContentsLoop_Reversed(e, objects) ==
    LET t == Element_take_child(e, "Contents")
    IN  IF Len(t.child) = 0 THEN [res |-> Ok(objects), element |-> e]
        ELSE AndThenAt(parse_object_info_from_xml(t.child[1]), t.rest,
                 LAMBDA o : ContentsLoop_Reversed(t.rest, <<o>> \o objects))

\* mutant: drops a Contents element that fails to decode and carries on
RECURSIVE ContentsLoop_Skip(_, _)
ContentsLoop_Skip(e, objects) ==
    LET t == Element_take_child(e, "Contents")
    IN  IF Len(t.child) = 0 THEN [res |-> Ok(objects), element |-> e]
        ELSE ContentsLoop_Skip(t.rest,
                 objects \o ResultOk(parse_object_info_from_xml(t.child[1])))

\* first while loop of parse_result_from_xml
RECURSIVE ContentsLoop(_, _)
ContentsLoop(e, objects) ==
    LET t == Element_take_child(e, "Contents")
    IN  IF Len(t.child) = 0 THEN [res |-> Ok(objects), element |-> e]
        ELSE AndThenAt(parse_object_info_from_xml(t.child[1]), t.rest,
                 LAMBDA o : ContentsLoop(t.rest, Append(objects, o)))

\* second while loop of parse_result_from_xml
RECURSIVE CommonPrefixesLoop(_, _)
CommonPrefixesLoop(e, common_prefixes) ==
    LET t == Element_take_child(e, "CommonPrefixes")
    IN  IF Len(t.child) = 0 THEN [res |-> Ok(common_prefixes), element |-> e]
        ELSE AndThenAt(get_field(t.child[1], "Prefix"), t.rest,
                 LAMBDA prefix :
                     CommonPrefixesLoop(t.rest, Append(common_prefixes, prefix)))

\* lines 79-82: the optional NextContinuationToken
NextContinuationToken(e) ==
    LET elem == Element_get_child(e, "NextContinuationToken")
    IN  IF Len(elem) = 0 THEN Ok(None)
        ELSE AndThen(get_text(elem[1]), LAMBDA token : Ok(Some(token)))

\* lines 84-85: the required IsTruncated
IsTruncated(e) ==
    AndThen(get_field(e, "IsTruncated"),
            LAMBDA is_truncated :
                MapErr(bool_from_str(is_truncated), BoolError("IsTruncated")))

\* mutant: trusts NextContinuationToken and ignores IsTruncated
TruncationConsistent_Unchecked(is_truncated, next_continuation_token) == TRUE

\* line 87: whether the two fields agree
TruncationConsistent(is_truncated, next_continuation_token) ==
    is_truncated = (Len(next_continuation_token) > 0)

\* lines 79-98, on the root as the two loops have left it
ListObjectsResultOf(e, objects, common_prefixes) ==
    AndThen(NextContinuationToken(e), LAMBDA next_continuation_token :
    AndThen(IsTruncated(e), LAMBDA is_truncated :
        IF ~TruncationConsistent(is_truncated, next_continuation_token)
        THEN Err(InvalidResponse(e,
                 "IsTruncated doesn't match NextContinuationToken"))
        ELSE Ok([objects |-> objects,
                 common_prefixes |-> common_prefixes,
                 next_continuation_token |-> next_continuation_token])))

\* lines 72-98, after the Contents loop
AfterContents(e, objects) ==
    LET p == CommonPrefixesLoop(e, <<>>)
    IN  AndThenAt(p.res, p.element,
            LAMBDA common_prefixes :
                [res |-> ListObjectsResultOf(p.element, objects, common_prefixes),
                 element |-> p.element])

parse_result_from_xml(e) ==
    LET c == ContentsLoop(e, <<>>)
    IN  AndThenAt(c.res, c.element, LAMBDA objects : AfterContents(c.element, objects))

---------------------------------------------------------------------------
(* xmltree::Element::parse.  A body is a sequence of tokens, each a start  *)
(* tag, an end tag or character data.  The parse keeps a stack of the open *)
(* elements; it fails on an end tag that closes nothing or the wrong       *)
(* element, on character data or a second element outside the root, and   *)
(* on a body that ends with an element open or with no root at all.        *)

Open(n) == [t |-> "open", v |-> n]
Close(n) == [t |-> "close", v |-> n]
Chars(s) == [t |-> "chars", v |-> s]

XmlError == Err("xmltree::ParseError")

AppendChild(stack, node) ==
    [stack EXCEPT ![Len(stack)].children = Append(@, node)]

RECURSIVE ParseTokens(_, _, _)
ParseTokens(tokens, stack, root) ==
    IF tokens = <<>>
    THEN IF Len(stack) = 0 /\ Len(root) = 1 THEN Ok(root[1]) ELSE XmlError
    ELSE
    LET tok == Head(tokens)
    IN  CASE tok.t = "open" ->
                IF Len(stack) = 0 /\ Len(root) = 1 THEN XmlError
                ELSE ParseTokens(Tail(tokens), Append(stack, Elem(tok.v, <<>>)), root)
          [] tok.t = "chars" ->
                IF Len(stack) = 0 THEN XmlError
                ELSE ParseTokens(Tail(tokens), AppendChild(stack, Text(tok.v)), root)
          [] tok.t = "close" ->
                IF Len(stack) = 0 \/ stack[Len(stack)].name # tok.v THEN XmlError
                ELSE
                LET done == stack[Len(stack)]
                    below == SubSeq(stack, 1, Len(stack) - 1)
                IN  IF Len(below) = 0
                    THEN ParseTokens(Tail(tokens), below, Some(done))
                    ELSE ParseTokens(Tail(tokens), AppendChild(below, done), root)

Element_parse(bytes) == ParseTokens(bytes, <<>>, None)

parse_result_from_bytes(bytes) ==
    AndThen(Element_parse(bytes), LAMBDA root : parse_result_from_xml(root).res)

---------------------------------------------------------------------------
(* Error classifier *)

NoSuchBucket == "NoSuchBucket"

MetaRequestResult(status, body) ==
    [response_status |-> status, error_response_body |-> body]

\* mutant: looks at the error body whatever the status
parse_list_objects_error_AnyStatus(result) ==
    LET body == result.error_response_body
    IN  IF Len(body) = 0 THEN None
        ELSE
        LET root == Element_parse(body[1])
        IN  IF ~root.ok THEN None
            ELSE
            LET error_code == Element_get_child(root.val, "Code")
            IN  IF Len(error_code) = 0 THEN None
                ELSE IF Element_get_text(error_code[1]) = Some("NoSuchBucket")
                THEN Some(NoSuchBucket)
                ELSE None

parse_list_objects_error(result) ==
    IF result.response_status = 404
    THEN
        LET body == result.error_response_body
        IN  IF Len(body) = 0 THEN None
            ELSE
            LET root == Element_parse(body[1])
            IN  IF ~root.ok THEN None
                ELSE
                LET error_code == Element_get_child(root.val, "Code")
                IN  IF Len(error_code) = 0 THEN None
                    ELSE
                    LET error_str == Element_get_text(error_code[1])
                    IN  IF Len(error_str) = 0 THEN None
                        ELSE IF error_str[1] = "NoSuchBucket"
                        THEN Some(NoSuchBucket)
                        ELSE None
    ELSE None

---------------------------------------------------------------------------
(* Native return-code translator (aws-crt-s3).  A pointer is 0 when null.  *)
(* Each translation returns its result and what it read from the thread's  *)
(* last-error slot (None when it did not read it).                         *)

\* aws-c-common: the two values a CRT function returning int may return
AWS_OP_SUCCESS == 0
AWS_OP_ERR == -1

NULL == 0

\* common::error::Error, a wrapper of the CRT's error code
Error(code) == [code |-> code]
\* Error::last_error: aws_last_error() of the calling thread
Error_last_error(slot) == Error(slot)
\* Error::from(i32)
Error_from(n) == Error(n)

\* mutant: reports a null pointer with the generic error code
ok_or_last_error_ptr_Generic(self, slot) ==
    IF self # NULL
    THEN [result |-> Ok(self), read |-> None]
    ELSE [result |-> Err(Error_from(AWS_OP_ERR)), read |-> None]

\* impl CrtError for *const T and *mut T
ok_or_last_error_ptr(self, slot) ==
    IF self # NULL
    THEN [result |-> Ok(self), read |-> None]
    ELSE [result |-> Err(Error_last_error(slot)), read |-> Some(slot)]

\* mutant: takes every code but AWS_OP_SUCCESS for AWS_OP_ERR
ok_or_last_error_i32_AllErr(self, slot) ==
    IF self = AWS_OP_SUCCESS
    THEN [result |-> Ok(0), read |-> None]
    ELSE [result |-> Err(Error_last_error(slot)), read |-> Some(slot)]

\* impl CrtError for i32; Ok(0) stands for Ok(())
ok_or_last_error_i32(self, slot) ==
    CASE self = AWS_OP_SUCCESS -> [result |-> Ok(0), read |-> None]
      [] self = AWS_OP_ERR ->
             [result |-> Err(Error_last_error(slot)), read |-> Some(slot)]
      [] OTHER -> [result |-> Err(Error_from(self)), read |-> None]

---------------------------------------------------------------------------
(* list_objects: the request it builds and the errors it returns *)

\* S3CrtClientInner::new_request_template
new_request_template(method, bucket) ==
    [method |-> method, bucket |-> bucket, headers |-> <<>>,
     path |-> None, query |-> None]
\* Message::set_header
set_header(message, header) ==
    [message EXCEPT !.headers = Append(@, header)]
\* Message::set_request_path_and_query with QueryFragment::Query
set_request_path_and_query(message, path, query) ==
    [message EXCEPT !.path = Some(path), !.query = Some(query)]
\* Message::into_options
into_options(message, operation) ==
    [message |-> message, operation |-> operation]

\* mutant: sends continuation-token always, empty when there is none
list_objects_request_AlwaysToken(bucket, continuation_token, delimiter, max_keys, prefix) ==
    into_options(
        set_request_path_and_query(
            set_header(new_request_template("GET", bucket),
                       <<"x-amz-optional-object-attributes", "RestoreStatus">>),
            "/",
            <<<<"list-type", "2">>, <<"delimiter", delimiter>>,
              <<"max-keys", ToString(max_keys)>>, <<"prefix", prefix>>,
              <<"continuation-token",
                IF Len(continuation_token) = 1 THEN continuation_token[1] ELSE "">>>>),
        "ListObjects")

\* lines 183-216: the message list_objects hands to the dispatcher
list_objects_request(bucket, continuation_token, delimiter, max_keys, prefix) ==
    LET message0 == new_request_template("GET", bucket)
        message1 == set_header(message0,
                        <<"x-amz-optional-object-attributes", "RestoreStatus">>)
        max_keys_text == ToString(max_keys)
        query0 == <<<<"list-type", "2">>,
                    <<"delimiter", delimiter>>,
                    <<"max-keys", max_keys_text>>,
                    <<"prefix", prefix>>>>
        query == IF Len(continuation_token) = 1
                 THEN Append(query0, <<"continuation-token", continuation_token[1]>>)
                 ELSE query0
        message2 == set_request_path_and_query(message1, "/", query)
    IN  into_options(message2, "ListObjects")

\* S3RequestError::construction_failure
ConstructionFailure(what) ==
    [kind |-> "ClientError", detail |-> "ConstructionFailure", cause |-> what]
\* ObjectClientError::ClientError(S3RequestError::InternalError(e))
InternalError(e) ==
    [kind |-> "ClientError", detail |-> "InternalError", cause |-> e]
\* line 225: map_err of the parse error
ToClientError(r) == IF r.ok THEN r ELSE Err(InternalError(r.err))
\* the generic error of a failed request that the classifier does not recognize
ResponseError(status) ==
    [kind |-> "ClientError", detail |-> "ResponseError", cause |-> status]
\* the error of a request that the dispatcher could not start
CrtError == [kind |-> "ClientError", detail |-> "CrtError", cause |-> "crt"]
\* ObjectClientError::ServiceError
ServiceError(e) == [kind |-> "ServiceError", detail |-> e, cause |-> "service"]

\* the dispatcher's error for a failed request: the classifier's domain error
\* if it recognizes one, the generic error otherwise
ClassifiedError(result) ==
    LET c == parse_list_objects_error(result)
    IN  IF Len(c) = 1 THEN ServiceError(c[1])
        ELSE ResponseError(result.response_status)

---------------------------------------------------------------------------
(* Inputs of the per-object decode: a Contents element is put together     *)
(* from one variant of each field, in the order S3 sends them.             *)

KeyVariants == {<<>>, <<Elem("Key", <<>>)>>, <<Leaf("Key", "a.txt")>>}
SizeVariants == {<<>>, <<Leaf("Size", "10")>>, <<Leaf("Size", "abc")>>}
LastModifiedVariants ==
    {<<>>, <<Leaf("LastModified", "2023-01-01T00:00:00Z")>>,
           <<Leaf("LastModified", "yesterday")>>}
StorageClassVariants ==
    {<<>>, <<Leaf("StorageClass", "GLACIER")>>, <<Elem("StorageClass", <<>>)>>}
ETagVariants == {<<>>, <<Leaf("ETag", "\"abc\"")>>}

InProgressVariants ==
    {<<>>, <<Leaf("IsRestoreInProgress", "true")>>,
           <<Leaf("IsRestoreInProgress", "false")>>,
           <<Leaf("IsRestoreInProgress", "True")>>,
           <<Elem("IsRestoreInProgress", <<>>)>>}
ExpiryVariants ==
    {<<>>, <<Leaf("RestoreExpiryDate", "2023-06-01T00:00:00Z")>>,
           <<Leaf("RestoreExpiryDate", "2023-01-01T01:00:00+01:00")>>,
           <<Leaf("RestoreExpiryDate", "soon")>>,
           <<Elem("RestoreExpiryDate", <<>>)>>}
RestoreVariants ==
    {<<>>} \cup {<<Elem("RestoreStatus", ip \o ex)>> :
                    ip \in InProgressVariants, ex \in ExpiryVariants}

AlgorithmPool ==
    {Leaf("ChecksumAlgorithm", s) :
        s \in {"CRC64NVME", "CRC32", "CRC32C", "SHA1", "SHA256", "FOO", "crc32"}}
    \cup {Elem("ChecksumAlgorithm", <<>>)}
ChecksumVariants == SeqsUpTo(AlgorithmPool, MaxAlgorithms)

Contents(k, s, lm, sc, rs, et, ca) ==
    Elem("Contents", k \o lm \o et \o ca \o s \o sc \o rs)

\* every combination of the scalar fields and of RestoreStatus, and every
\* list of checksum algorithms on an otherwise decodable object
ContentsInputs ==
    {Contents(k, s, lm, sc, rs, et, <<>>) :
        k \in KeyVariants, s \in SizeVariants, lm \in LastModifiedVariants,
        sc \in StorageClassVariants, rs \in RestoreVariants, et \in ETagVariants}
    \cup
    {Contents(<<Leaf("Key", "a.txt")>>, <<Leaf("Size", "10")>>,
              <<Leaf("LastModified", "2023-01-01T00:00:00Z")>>, <<>>, rs, et, ca) :
        rs \in {<<>>, <<Elem("RestoreStatus",
                             <<Leaf("IsRestoreInProgress", "true")>>)>>},
        et \in ETagVariants, ca \in ChecksumVariants}

---------------------------------------------------------------------------
(* Inputs of the whole-response parse *)

GoodObjectA ==
    Contents(<<Leaf("Key", "a.txt")>>, <<Leaf("Size", "10")>>,
             <<Leaf("LastModified", "2023-01-01T00:00:00Z")>>, <<>>, <<>>,
             <<Leaf("ETag", "\"abc\"")>>, <<>>)
GoodObjectB ==
    Contents(<<Leaf("Key", "b.txt")>>, <<Leaf("Size", "0")>>,
             <<Leaf("LastModified", "2023-06-01T00:00:00Z")>>,
             <<Leaf("StorageClass", "GLACIER")>>,
             <<Elem("RestoreStatus", <<Leaf("IsRestoreInProgress", "true")>>)>>,
             <<Leaf("ETag", "\"def\"")>>, <<Leaf("ChecksumAlgorithm", "CRC32")>>)
NoKeyObject ==
    Contents(<<>>, <<Leaf("Size", "10")>>,
             <<Leaf("LastModified", "2023-01-01T00:00:00Z")>>, <<>>, <<>>,
             <<Leaf("ETag", "\"abc\"")>>, <<>>)
BadSizeObject ==
    Contents(<<Leaf("Key", "c.txt")>>, <<Leaf("Size", "abc")>>,
             <<Leaf("LastModified", "2023-01-01T00:00:00Z")>>, <<>>, <<>>,
             <<Leaf("ETag", "\"abc\"")>>, <<>>)

\* the Contents and CommonPrefixes elements a listing is made of
EntryPool ==
    {GoodObjectA, GoodObjectB, NoKeyObject, BadSizeObject,
     Elem("CommonPrefixes", <<Leaf("Prefix", "a/")>>),
     Elem("CommonPrefixes", <<Leaf("Prefix", "b/")>>),
     Elem("CommonPrefixes", <<>>)}

IsTruncatedVariants ==
    {<<>>, <<Leaf("IsTruncated", "true")>>, <<Leaf("IsTruncated", "false")>>,
           <<Leaf("IsTruncated", "maybe")>>, <<Elem("IsTruncated", <<>>)>>}
TokenVariants ==
    {<<>>, <<Leaf("NextContinuationToken", "tok")>>,
           <<Elem("NextContinuationToken", <<>>)>>}

\* a response root: IsTruncated, the entries in any interleaving, the token
Documents ==
    {Elem("ListBucketResult", it \o entries \o tok) :
        it \in IsTruncatedVariants,
        entries \in SeqsUpTo(EntryPool, MaxEntries),
        tok \in TokenVariants}

---------------------------------------------------------------------------
(* SpecObject: the per-object decode applied to one Contents element *)

IdleObj == content = NoNode /\ object_info = None
IdleParse == document = NoNode /\ element = NoNode /\ list_result = None
IdleCls == meta_result = None /\ classification = None
IdleCrt == last_error = None /\ task = None
IdleList ==
    /\ list_args = None /\ fault = "none" /\ list_pc = "idle" /\ meta_request = None
    /\ response = None /\ parsed = None /\ outcome = None

InitObject ==
    /\ content \in ContentsInputs
    /\ object_info = None
    /\ IdleParse /\ IdleCls /\ IdleCrt /\ IdleList

DecodeObject ==
    /\ content # NoNode
    /\ object_info = None
    /\ object_info' = Some(parse_object_info_from_xml(content))
    /\ UNCHANGED <<content, parseVars, clsVars, crtVars, listVars>>

NextObject == DecodeObject

SpecObject == InitObject /\ [][NextObject]_vars

---------------------------------------------------------------------------
(* SpecParse: parse_result_from_xml applied to one response root *)

InitParse ==
    /\ document \in Documents
    /\ element = document
    /\ list_result = None
    /\ IdleObj /\ IdleCls /\ IdleCrt /\ IdleList

ParseResult ==
    /\ document # NoNode
    /\ list_result = None
    /\ LET r == parse_result_from_xml(element)
       IN  /\ list_result' = Some(r.res)
           /\ element' = r.element
    /\ UNCHANGED <<document, objVars, clsVars, crtVars, listVars>>

NextParse == ParseResult

SpecParse == InitParse /\ [][NextParse]_vars

---------------------------------------------------------------------------
(* SpecClassify: parse_list_objects_error applied to one failed request *)

BodyTokens ==
    {Open("Error"), Close("Error"), Open("Code"), Close("Code"),
     Chars("NoSuchBucket"), Chars("AccessDenied")}

ErrorBodies ==
    {None} \cup {Some(b) : b \in SeqsUpTo(BodyTokens, MaxBodyTokens)}

Statuses == {403, 404}

InitClassify ==
    /\ meta_result \in {MetaRequestResult(st, b) : st \in Statuses, b \in ErrorBodies}
    /\ classification = None
    /\ IdleObj /\ IdleParse /\ IdleCrt /\ IdleList

Classify ==
    /\ meta_result # None
    /\ classification = None
    /\ classification' = Some(parse_list_objects_error(meta_result))
    /\ UNCHANGED <<meta_result, objVars, parseVars, crtVars, listVars>>

NextClassify == Classify

SpecClassify == InitClassify /\ [][NextClassify]_vars

---------------------------------------------------------------------------
(* SpecCrt: tasks on threads call into the CRT and translate what the call *)
(* returned.  A failing call writes its diagnostic to the last-error slot  *)
(* of the thread it runs on.  written is the diagnostic the task's own     *)
(* call wrote; direct says that since that call no other native call ran   *)
(* on the task's thread and the task did not change thread.                *)

Threads == {"t1", "t2"}
Tasks == {"a", "b"}
Diagnostics == 1..MaxError
ReturnCodes == (0 - MaxCode)..MaxCode
\* some address that is not null
ValidPointer == NULL + 1

Ready(t) ==
    [thread |-> t, pc |-> "ready", kind |-> "none", ret |-> 0, written |-> None,
     direct |-> TRUE, result |-> None, read |-> None]

InitCrt ==
    /\ last_error = [t \in Threads |-> 0]
    /\ task \in [Tasks -> {Ready(t) : t \in Threads}]
    /\ IdleObj /\ IdleParse /\ IdleCls /\ IdleList

\* the tasks whose pending translation a native call on thread t disturbs
Disturbed(k, t) ==
    {j \in Tasks \ {k} : task[j].pc = "returned" /\ task[j].thread = t}

Returned(k, kind, ret, written) ==
    LET t == task[k].thread
    IN  task' = [j \in Tasks |->
                    IF j = k
                    THEN [task[k] EXCEPT !.pc = "returned", !.kind = kind,
                                         !.ret = ret, !.written = written]
                    ELSE IF j \in Disturbed(k, t)
                    THEN [task[j] EXCEPT !.direct = FALSE]
                    ELSE task[j]]

\* a native call that succeeds
NativeCallSucceeds(k) ==
    /\ task[k].pc = "ready"
    /\ \/ Returned(k, "ptr", ValidPointer, None)
       \/ Returned(k, "int", AWS_OP_SUCCESS, None)
    /\ UNCHANGED last_error
    /\ UNCHANGED <<objVars, parseVars, clsVars, listVars>>

\* a native call that fails: it raises e and returns null or AWS_OP_ERR
NativeCallFails(k) ==
    /\ task[k].pc = "ready"
    /\ \E e \in Diagnostics :
        /\ last_error' = [last_error EXCEPT ![task[k].thread] = e]
        /\ \/ Returned(k, "ptr", NULL, Some(e))
           \/ Returned(k, "int", AWS_OP_ERR, Some(e))
    /\ UNCHANGED <<objVars, parseVars, clsVars, listVars>>

\* a native call that returns an integer that is neither sentinel
NativeCallReturnsOther(k) ==
    /\ task[k].pc = "ready"
    /\ \E n \in ReturnCodes \ {AWS_OP_SUCCESS, AWS_OP_ERR} :
           Returned(k, "int", n, None)
    /\ UNCHANGED last_error
    /\ UNCHANGED <<objVars, parseVars, clsVars, listVars>>

\* the task is resumed on another thread before it has translated
Hop(k) ==
    /\ task[k].pc = "returned"
    /\ \E t \in Threads \ {task[k].thread} :
           task' = [task EXCEPT ![k].thread = t, ![k].direct = FALSE]
    /\ UNCHANGED last_error
    /\ UNCHANGED <<objVars, parseVars, clsVars, listVars>>

\* ok_or_last_error, on the thread the task is on now
Translate(k) ==
    /\ task[k].pc = "returned"
    /\ LET slot == last_error[task[k].thread]
           r == IF task[k].kind = "ptr"
                THEN ok_or_last_error_ptr(task[k].ret, slot)
                ELSE ok_or_last_error_i32(task[k].ret, slot)
       IN  task' = [task EXCEPT ![k].pc = "translated",
                                ![k].result = Some(r.result),
                                ![k].read = r.read]
    /\ UNCHANGED last_error
    /\ UNCHANGED <<objVars, parseVars, clsVars, listVars>>

\* the task goes on to its next native call
Continue(k) ==
    /\ task[k].pc = "translated"
    /\ task' = [task EXCEPT ![k] = Ready(task[k].thread)]
    /\ UNCHANGED last_error
    /\ UNCHANGED <<objVars, parseVars, clsVars, listVars>>

NextCrt ==
    \E k \in Tasks :
        \/ NativeCallSucceeds(k)
        \/ NativeCallFails(k)
        \/ NativeCallReturnsOther(k)
        \/ Hop(k)
        \/ Translate(k)
        \/ Continue(k)

SpecCrt == InitCrt /\ [][NextCrt]_vars

---------------------------------------------------------------------------
(* SpecList: one call of list_objects.  fault says which of the calls to   *)
(* the message builder and the dispatcher fails in it.  The dispatcher     *)
(* resolves the pending result at most once; the caller may drop it.       *)

ListArgs ==
    [bucket : {"bucket"},
     continuation_token : {None, Some("tok"), Some("a b&c")},
     delimiter : {"/", ""},
     max_keys : {0, 1, 10, 1000},
     prefix : {"", "dir/"}]

Faults ==
    {"none", "new_request_template", "set_header", "set_request_path_and_query",
     "meta_request_with_body_payload"}
ConstructionFaults ==
    {"new_request_template", "set_header", "set_request_path_and_query"}

\* response bodies: a listing, a truncated listing, one that breaks the
\* truncation invariant, and one that is not XML
ResponseBodies ==
    {<<Open("ListBucketResult"), Open("IsTruncated"), Chars("false"),
       Close("IsTruncated"), Close("ListBucketResult")>>,
     <<Open("ListBucketResult"), Open("IsTruncated"), Chars("true"),
       Close("IsTruncated"), Open("CommonPrefixes"), Open("Prefix"), Chars("a/"),
       Close("Prefix"), Close("CommonPrefixes"), Open("NextContinuationToken"),
       Chars("tok"), Close("NextContinuationToken"), Close("ListBucketResult")>>,
     <<Open("ListBucketResult"), Open("IsTruncated"), Chars("true"),
       Close("IsTruncated"), Close("ListBucketResult")>>,
     <<Open("ListBucketResult"), Open("IsTruncated"), Chars("false")>>}

FailedRequests ==
    {MetaRequestResult(404, Some(<<Open("Error"), Open("Code"), Chars("NoSuchBucket"),
                                   Close("Code"), Close("Error")>>)),
     MetaRequestResult(404, None),
     MetaRequestResult(403, Some(<<Open("Error"), Open("Code"), Chars("AccessDenied"),
                                   Close("Code"), Close("Error")>>))}

InitList ==
    /\ list_args \in ListArgs
    /\ fault \in Faults
    /\ list_pc = "start"
    /\ meta_request = <<>>
    /\ response = None
    /\ parsed = <<>>
    /\ outcome = None
    /\ IdleObj /\ IdleParse /\ IdleCls /\ IdleCrt

\* list_objects up to its await
ListObjectsStart ==
    /\ list_pc = "start"
    /\ IF fault \in ConstructionFaults
       THEN /\ outcome' = Some(Err(ConstructionFailure(fault)))
            /\ list_pc' = "done"
            /\ UNCHANGED meta_request
       ELSE LET options == list_objects_request(list_args.bucket,
                               list_args.continuation_token, list_args.delimiter,
                               list_args.max_keys, list_args.prefix)
            IN  /\ meta_request' = Append(meta_request, options)
                /\ IF fault = "meta_request_with_body_payload"
                   THEN outcome' = Some(Err(CrtError)) /\ list_pc' = "done"
                   ELSE outcome' = None /\ list_pc' = "awaiting"
    /\ UNCHANGED <<list_args, fault, response, parsed>>
    /\ UNCHANGED <<objVars, parseVars, clsVars, crtVars>>

\* the dispatcher resolves the pending result with the whole response body
ResolveWithBody ==
    /\ list_pc \in {"awaiting", "abandoned"}
    /\ response = None
    /\ \E body \in ResponseBodies : response' = Some(Ok(body))
    /\ UNCHANGED <<list_args, fault, list_pc, meta_request, parsed, outcome>>
    /\ UNCHANGED <<objVars, parseVars, clsVars, crtVars>>

\* the dispatcher resolves the pending result with the error of a failed
\* request, after the classifier has seen it
ResolveWithError ==
    /\ list_pc \in {"awaiting", "abandoned"}
    /\ response = None
    /\ \E result \in FailedRequests : response' = Some(Err(ClassifiedError(result)))
    /\ UNCHANGED <<list_args, fault, list_pc, meta_request, parsed, outcome>>
    /\ UNCHANGED <<objVars, parseVars, clsVars, crtVars>>

\* the caller drops the pending result
Abandon ==
    /\ list_pc = "awaiting"
    /\ list_pc' = "abandoned"
    /\ UNCHANGED <<list_args, fault, meta_request, response, parsed, outcome>>
    /\ UNCHANGED <<objVars, parseVars, clsVars, crtVars>>

\* mutant: hands an empty body to the parser when the request has failed
ListObjectsResume_ParsesAnyway ==
    /\ list_pc = "awaiting"
    /\ response # None
    /\ LET body == IF response[1].ok THEN response[1].val ELSE <<>>
       IN  /\ parsed' = Append(parsed, body)
           /\ outcome' = Some(ToClientError(parse_result_from_bytes(body)))
    /\ list_pc' = "done"
    /\ UNCHANGED <<list_args, fault, meta_request, response>>
    /\ UNCHANGED <<objVars, parseVars, clsVars, crtVars>>

\* list_objects from its await on: body.await? and the parse
ListObjectsResume ==
    /\ list_pc = "awaiting"
    /\ response # None
    /\ IF ~response[1].ok
       THEN /\ outcome' = Some(response[1])
            /\ UNCHANGED parsed
       ELSE LET body == response[1].val
            IN  /\ parsed' = Append(parsed, body)
                /\ outcome' = Some(ToClientError(parse_result_from_bytes(body)))
    /\ list_pc' = "done"
    /\ UNCHANGED <<list_args, fault, meta_request, response>>
    /\ UNCHANGED <<objVars, parseVars, clsVars, crtVars>>

NextList ==
    \/ ListObjectsStart
    \/ ResolveWithBody
    \/ ResolveWithError
    \/ Abandon
    \/ ListObjectsResume

SpecList == InitList /\ [][NextList]_vars

---------------------------------------------------------------------------
(* What a document says, read off the tree without the parser *)

ChildrenNamed(e, name) ==
    SelectSeq(e.children, LAMBDA n : n.kind = "elem" /\ n.name = name)
HasChild(e, name) == Len(ChildrenNamed(e, name)) > 0
FirstNamed(e, name) == ChildrenNamed(e, name)[1]
HasText(e) == \E i \in 1..Len(e.children) : e.children[i].kind = "text"
TextOf(e) == ConcatText(SelectSeq(e.children, LAMBDA n : n.kind = "text"))

\* index of the first element of seq for which Good fails, 0 if there is none
FirstFailing(seq, Good(_)) ==
    LET bad == {i \in 1..Len(seq) : ~Good(seq[i])}
    IN  IF bad = {} THEN 0 ELSE CHOOSE i \in bad : \A j \in bad : i <= j

TokenPresent(d) == HasChild(d, "NextContinuationToken")
TokenValid(d) ==
    TokenPresent(d) => HasText(FirstNamed(d, "NextContinuationToken"))
TruncatedValid(d) ==
    /\ HasChild(d, "IsTruncated")
    /\ HasText(FirstNamed(d, "IsTruncated"))
    /\ TextOf(FirstNamed(d, "IsTruncated")) \in {"true", "false"}
SaysTruncated(d) == TextOf(FirstNamed(d, "IsTruncated")) = "true"
ObjectDecodes(c) == parse_object_info_from_xml(c).ok
PrefixValid(p) == HasChild(p, "Prefix") /\ HasText(FirstNamed(p, "Prefix"))

\* everything but the agreement of IsTruncated and NextContinuationToken
OtherFieldsValid(d) ==
    /\ FirstFailing(ChildrenNamed(d, "Contents"), ObjectDecodes) = 0
    /\ FirstFailing(ChildrenNamed(d, "CommonPrefixes"), PrefixValid) = 0
    /\ TokenValid(d)
    /\ TruncatedValid(d)

WellFormed(d) == OtherFieldsValid(d) /\ (SaysTruncated(d) <=> TokenPresent(d))

MismatchProblem == "IsTruncated doesn't match NextContinuationToken"

---------------------------------------------------------------------------
(* Claims about parse_result_from_xml, under SpecParse *)

\* C1: a ListObjectsResult is returned only if IsTruncated equals the
\* presence of NextContinuationToken; when the two disagree and every other
\* field is valid, the parse fails with InvalidResponse naming the mismatch.
C1_TruncationInvariant ==
    list_result # None =>
        LET r == list_result[1]
        IN  /\ r.ok => /\ TruncatedValid(document)
                       /\ SaysTruncated(document) <=> TokenPresent(document)
                       /\ (Len(r.val.next_continuation_token) > 0)
                              <=> SaysTruncated(document)
            /\ (OtherFieldsValid(document)
                  /\ (SaysTruncated(document) # TokenPresent(document)))
               => /\ ~r.ok
                  /\ r.err.kind = "InvalidResponse"
                  /\ r.err.field = MismatchProblem

\* C1 witness: IsTruncated=true without a token, after a decoded object, is
\* rejected with the mismatch error.
C1_Witness ==
    /\ list_result # None
    /\ HasChild(document, "Contents")
    /\ OtherFieldsValid(document)
    /\ SaysTruncated(document) /\ ~TokenPresent(document)
    /\ ~list_result[1].ok
    /\ list_result[1].err.field = MismatchProblem

\* C2: a well-formed response with N Contents and M CommonPrefixes children,
\* in any interleaving, parses to exactly N objects and M prefixes, the i-th
\* being the decode of the i-th element of its kind in document order.
C2_CountsAndOrder ==
    list_result # None =>
        LET r  == list_result[1]
            cs == ChildrenNamed(document, "Contents")
            ps == ChildrenNamed(document, "CommonPrefixes")
        IN  /\ WellFormed(document) => r.ok
            /\ r.ok =>
                /\ Len(r.val.objects) = Len(cs)
                /\ \A i \in 1..Len(cs) :
                       parse_object_info_from_xml(cs[i]) = Ok(r.val.objects[i])
                /\ Len(r.val.common_prefixes) = Len(ps)
                /\ \A i \in 1..Len(ps) :
                       r.val.common_prefixes[i] = TextOf(FirstNamed(ps[i], "Prefix"))

\* C2 witness: Contents, CommonPrefixes, Contents interleaved, two different
\* objects, parsed successfully.
C2_Witness ==
    /\ list_result # None
    /\ list_result[1].ok
    /\ Len(list_result[1].val.objects) = 2
    /\ Len(list_result[1].val.common_prefixes) = 1
    /\ list_result[1].val.objects[1].key = "b.txt"
    /\ list_result[1].val.objects[2].key = "a.txt"
    /\ \E i \in 1..Len(document.children) - 2 :
           /\ document.children[i].name = "Contents"
           /\ document.children[i + 1].name = "CommonPrefixes"
           /\ document.children[i + 2].name = "Contents"

\* C10: parsing is all-or-nothing with a fixed precedence: the error of the
\* first failing Contents element in document order (MissingField naming
\* "Key" when it lacks Key), else that of the first failing CommonPrefixes,
\* else that of NextContinuationToken, else that of IsTruncated, and only
\* then the truncation mismatch; a result is returned only if nothing fails.
C10_ErrorPrecedence ==
    list_result # None =>
        LET r  == list_result[1]
            d  == document
            cs == ChildrenNamed(d, "Contents")
            ps == ChildrenNamed(d, "CommonPrefixes")
            fc == FirstFailing(cs, ObjectDecodes)
            fp == FirstFailing(ps, PrefixValid)
        IN  /\ fc # 0 =>
                /\ ~r.ok
                /\ r.err = parse_object_info_from_xml(cs[fc]).err
                /\ ~HasChild(cs[fc], "Key") => r.err = MissingField(cs[fc], "Key")
            /\ (fc = 0 /\ fp # 0) =>
                /\ ~r.ok
                /\ r.err = get_field(ps[fp], "Prefix").err
            /\ (fc = 0 /\ fp = 0 /\ ~TokenValid(d)) =>
                /\ ~r.ok
                /\ r.err = InvalidResponse(FirstNamed(d, "NextContinuationToken"),
                                           "field has no text")
            /\ (fc = 0 /\ fp = 0 /\ TokenValid(d) /\ ~TruncatedValid(d)) =>
                /\ ~r.ok
                /\ \/ r.err.kind \in {"MissingField", "Bool"}
                      /\ r.err.field = "IsTruncated"
                   \/ r.err = InvalidResponse(FirstNamed(d, "IsTruncated"),
                                              "field has no text")
            /\ (~r.ok /\ r.err.field = MismatchProblem) => OtherFieldsValid(d)
            /\ r.ok => WellFormed(d)

\* C10 witness: the second Contents element lacks Key while a CommonPrefixes
\* element, the token and IsTruncated are invalid too; the parse fails with
\* MissingField naming "Key".
C10_Witness ==
    /\ list_result # None
    /\ LET cs == ChildrenNamed(document, "Contents")
       IN  /\ Len(cs) = 2
           /\ ObjectDecodes(cs[1])
           /\ ~HasChild(cs[2], "Key")
           /\ ~list_result[1].ok
           /\ list_result[1].err = MissingField(cs[2], "Key")
    /\ FirstFailing(ChildrenNamed(document, "CommonPrefixes"), PrefixValid) # 0
    /\ ~TokenValid(document)
    /\ ~TruncatedValid(document)

---------------------------------------------------------------------------
(* Claims about the per-object decode, under SpecObject *)

ScalarFieldsValid(c) ==
    /\ get_field(c, "Key").ok
    /\ get_field(c, "Size").ok
    /\ TextOf(FirstNamed(c, "Size")) \in {"0", "10"}
    /\ get_field(c, "LastModified").ok
    /\ TextOf(FirstNamed(c, "LastModified")) = "2023-01-01T00:00:00Z"
    /\ get_field(c, "ETag").ok

ChecksumChildren(c) == ChildrenNamed(c, "ChecksumAlgorithm")

\* the fixed name table of the specification
NameTable ==
    ("CRC64NVME" :> "Crc64nvme") @@ ("CRC32" :> "Crc32") @@ ("CRC32C" :> "Crc32c")
    @@ ("SHA1" :> "Sha1") @@ ("SHA256" :> "Sha256")
ExpectedAlgorithm(s) ==
    IF s \in DOMAIN NameTable THEN Known(NameTable[s]) ELSE Unknown(s)

\* C6 as stated: with every other field valid, decoding the
\* ChecksumAlgorithm children never fails and yields one entry per child.
C6_NeverFails ==
    (object_info # None /\ ScalarFieldsValid(content)
        /\ parse_restore_status(content).ok)
    => /\ object_info[1].ok
       /\ Len(object_info[1].val.checksum_algorithms)
              = Len(ChecksumChildren(content))

\* C6 amended: decoding the ChecksumAlgorithm children fails exactly when a
\* child has no text, with InvalidResponse "field has no text" for the first
\* such child; otherwise there is one entry per child in document order,
\* mapped through the name table, any other text giving Unknown(text).
C6_ChecksumDecode ==
    (object_info # None /\ ScalarFieldsValid(content)
        /\ parse_restore_status(content).ok)
    => LET r   == object_info[1]
           cas == ChecksumChildren(content)
           ft  == FirstFailing(cas, HasText)
       IN  /\ r.ok <=> ft = 0
           /\ r.ok =>
               /\ Len(r.val.checksum_algorithms) = Len(cas)
               /\ \A i \in 1..Len(cas) :
                      r.val.checksum_algorithms[i] = ExpectedAlgorithm(TextOf(cas[i]))
           /\ ~r.ok => r.err = InvalidResponse(cas[ft], "field has no text")

\* C6 witness: two children, an unrecognized name then a known one.
C6_Witness ==
    /\ object_info # None
    /\ object_info[1].ok
    /\ object_info[1].val.checksum_algorithms = <<Unknown("FOO"), Known("Crc32c")>>

\* C7: IsRestoreInProgress=true always gives InProgress, whatever the
\* RestoreExpiryDate sibling; RestoreExpiryDate is required and parsed as
\* RFC 3339 only when IsRestoreInProgress is false, giving Restored(expiry).
C7_RestoreStatus ==
    (object_info # None /\ ScalarFieldsValid(content)
        /\ FirstFailing(ChecksumChildren(content), HasText) = 0
        /\ HasChild(content, "RestoreStatus")
        /\ HasChild(FirstNamed(content, "RestoreStatus"), "IsRestoreInProgress")
        /\ HasText(FirstNamed(FirstNamed(content, "RestoreStatus"),
                              "IsRestoreInProgress")))
    => LET r  == object_info[1]
           rs == FirstNamed(content, "RestoreStatus")
           ip == TextOf(FirstNamed(rs, "IsRestoreInProgress"))
           ex == ChildrenNamed(rs, "RestoreExpiryDate")
       IN  /\ ip = "true" => r.ok /\ r.val.restore_status = Some(InProgress)
           /\ ip = "false" =>
               /\ Len(ex) = 0 =>
                      ~r.ok /\ r.err = MissingField(rs, "RestoreExpiryDate")
               /\ (Len(ex) > 0 /\ ~HasText(ex[1])) =>
                      ~r.ok /\ r.err = InvalidResponse(ex[1], "field has no text")
               /\ (Len(ex) > 0 /\ HasText(ex[1])) =>
                      LET t == TextOf(ex[1])
                      IN  /\ t = "soon" =>
                                 /\ ~r.ok
                                 /\ r.err = OffsetDateTimeError("RestoreExpiryDate")
                          /\ t = "2023-06-01T00:00:00Z" =>
                                 /\ r.ok
                                 /\ r.val.restore_status = Some(Restored(1685577600))
                          /\ t = "2023-01-01T01:00:00+01:00" =>
                                 /\ r.ok
                                 /\ r.val.restore_status = Some(Restored(1672531200))

\* C7 witness: IsRestoreInProgress=true beside a malformed RestoreExpiryDate
\* decodes to InProgress.
C7_Witness ==
    /\ object_info # None
    /\ HasChild(content, "RestoreStatus")
    /\ LET rs == FirstNamed(content, "RestoreStatus")
       IN  /\ HasChild(rs, "RestoreExpiryDate")
           /\ HasText(FirstNamed(rs, "RestoreExpiryDate"))
           /\ TextOf(FirstNamed(rs, "RestoreExpiryDate")) = "soon"
    /\ object_info[1].ok
    /\ object_info[1].val.restore_status = Some(InProgress)

---------------------------------------------------------------------------
(* Claim about the error classifier, under SpecClassify *)

\* C5: parse_list_objects_error returns NoSuchBucket if and only if the
\* status is 404, an error body is present and parses as XML, and the text
\* of the root's Code child is exactly "NoSuchBucket"; in every other case it
\* returns no classification, and it never returns a parse error.
C5_Classification ==
    classification # None =>
        LET r    == classification[1]
            body == meta_result.error_response_body
        IN  /\ r \in {None, Some(NoSuchBucket)}
            /\ r = Some(NoSuchBucket) <=>
                /\ meta_result.response_status = 404
                /\ Len(body) = 1
                /\ Element_parse(body[1]).ok
                /\ HasChild(Element_parse(body[1]).val, "Code")
                /\ HasText(FirstNamed(Element_parse(body[1]).val, "Code"))
                /\ TextOf(FirstNamed(Element_parse(body[1]).val, "Code"))
                       = "NoSuchBucket"
            /\ (meta_result.response_status = 404
                  /\ body = Some(<<Open("Error"), Open("Code"), Chars("NoSuchBucket"),
                                   Close("Code"), Close("Error")>>))
               => r = Some(NoSuchBucket)
            /\ (meta_result.response_status = 404
                  /\ body = Some(<<Open("Error"), Open("Code"), Chars("AccessDenied"),
                                   Close("Code"), Close("Error")>>))
               => r = None

\* C5 witness: a 404 whose body is <Error><Code>NoSuchBucket</Code></Error>
\* is classified as NoSuchBucket.
C5_Witness ==
    /\ classification = Some(Some(NoSuchBucket))
    /\ meta_result.response_status = 404
    /\ meta_result.error_response_body =
           Some(<<Open("Error"), Open("Code"), Chars("NoSuchBucket"),
                  Close("Code"), Close("Error")>>)

---------------------------------------------------------------------------
(* Claims about the return-code translator, under SpecCrt *)

Failed(k) ==
    \/ task[k].kind = "ptr" /\ task[k].ret = NULL
    \/ task[k].kind = "int" /\ task[k].ret = AWS_OP_ERR

\* C3: a translation made on the same thread directly after a failing native
\* call, with no other native call on that thread in between, returns the
\* diagnostic that this call wrote, whatever calls and translations run on
\* other threads meanwhile.
C3_OwnDiagnostic ==
    \A k \in Tasks :
        (task[k].pc = "translated" /\ Failed(k) /\ task[k].direct)
        => /\ Len(task[k].written) = 1
           /\ task[k].result = Some(Err(Error(task[k].written[1])))

\* C3 witness: one task has translated its own failure directly while the
\* other, which failed with another diagnostic on another thread and was
\* resumed on the first task's thread, got the first task's diagnostic.
C3_Witness ==
    \E k \in Tasks, j \in Tasks :
        /\ k # j
        /\ task[k].pc = "translated" /\ Failed(k) /\ task[k].direct
        /\ task[k].result = Some(Err(Error(task[k].written[1])))
        /\ task[j].pc = "translated" /\ Failed(j) /\ ~task[j].direct
        /\ task[j].written # task[k].written
        /\ task[j].result = task[k].result

\* C4: the translation of an integer succeeds if and only if the integer is
\* AWS_OP_SUCCESS; AWS_OP_ERR gives the error read from the last-error slot;
\* any other n gives the error built from n, without a read of the slot.
C4_IntegerCodes ==
    \A k \in Tasks :
        (task[k].pc = "translated" /\ task[k].kind = "int")
        => LET r == task[k].result[1]
               n == task[k].ret
           IN  /\ r.ok <=> n = 0
               /\ n = -1 => /\ Len(task[k].read) = 1
                            /\ r = Err(Error(task[k].read[1]))
               /\ n \notin {0, -1} => /\ task[k].read = None
                                      /\ r = Err(Error(n))

\* C4 witness: a call returned 2 while the thread's slot held diagnostic 1,
\* and the translation gave the error 2 without reading the slot.
C4_Witness ==
    \E k \in Tasks :
        /\ task[k].pc = "translated" /\ task[k].kind = "int"
        /\ task[k].ret = 2
        /\ last_error[task[k].thread] = 1
        /\ task[k].result = Some(Err(Error(2)))
        /\ task[k].read = None

---------------------------------------------------------------------------
(* Claims about list_objects, under SpecList *)

Digit == <<"0", "1", "2", "3", "4", "5", "6", "7", "8", "9">>
RECURSIVE Decimal(_)
Decimal(n) ==
    IF n < 10 THEN Digit[n + 1] ELSE Decimal(n \div 10) \o Digit[(n % 10) + 1]

\* C8: the request is a GET whose query is list-type=2, delimiter, max-keys,
\* prefix in that order, followed by continuation-token exactly when a token
\* was supplied, with the caller's token unchanged, and whose one header is
\* x-amz-optional-object-attributes: RestoreStatus.
C8_RequestShape ==
    meta_request # <<>> =>
        LET m == meta_request[1].message
            q == m.query[1]
            a == list_args
        IN  /\ Len(meta_request) = 1
            /\ meta_request[1].operation = "ListObjects"
            /\ m.method = "GET"
            /\ m.bucket = a.bucket
            /\ m.path = Some("/")
            /\ m.headers = <<<<"x-amz-optional-object-attributes", "RestoreStatus">>>>
            /\ SubSeq(q, 1, 4) = <<<<"list-type", "2">>,
                                   <<"delimiter", a.delimiter>>,
                                   <<"max-keys", Decimal(a.max_keys)>>,
                                   <<"prefix", a.prefix>>>>
            /\ Len(q) = 4 + Len(a.continuation_token)
            /\ Len(a.continuation_token) = 1 =>
                   q[5] = <<"continuation-token", a.continuation_token[1]>>

\* C8 witness: a call with a token and max_keys 1000 has dispatched its
\* request of five query parameters.
C8_Witness ==
    /\ list_pc = "awaiting"
    /\ list_args.continuation_token = Some("a b&c")
    /\ list_args.max_keys = 1000
    /\ Len(meta_request) = 1
    /\ Len(meta_request[1].message.query[1]) = 5
    /\ meta_request[1].message.query[1][3] = <<"max-keys", "1000">>

\* the state part of C9
C9_ParserOnlyOnSuccess ==
    /\ Len(parsed) <= 1
    /\ parsed # <<>> =>
           /\ Len(meta_request) = 1
           /\ response = Some(Ok(parsed[1]))
           /\ list_pc = "done"
    /\ (list_pc # "start" /\ fault \in ConstructionFaults) =>
           /\ meta_request = <<>>
           /\ response = None
           /\ parsed = <<>>
           /\ outcome # None
           /\ ~outcome[1].ok
           /\ outcome[1].err.detail = "ConstructionFailure"
    /\ (list_pc = "done" /\ response # None /\ ~response[1].ok) =>
           /\ parsed = <<>>
           /\ outcome = Some(response[1])
    /\ list_pc \in {"start", "awaiting", "abandoned"} =>
           parsed = <<>> /\ outcome = None
    /\ (list_pc = "done" /\ response # None /\ response[1].ok) =>
           parsed = <<response[1].val>> /\ outcome # None

\* C9: the parser runs only after the dispatcher has resolved successfully,
\* and then on the whole body; a construction failure dispatches nothing and
\* returns a construction-failure error; a dispatch error is returned as it
\* is and the parser does not run; an abandoned or unresolved call never
\* reaches the parser; the outcome of a call, once there, never changes.
C9_ControlFlow ==
    /\ []C9_ParserOnlyOnSuccess
    /\ [][outcome # None => outcome' = outcome]_vars
    /\ [][parsed # <<>> => parsed' = parsed]_vars

\* C9 witness: the dispatcher resolved with NoSuchBucket, the call returned
\* that error and nothing was parsed.
C9_Witness ==
    /\ list_pc = "done"
    /\ response = Some(Err(ServiceError(NoSuchBucket)))
    /\ outcome = response
    /\ parsed = <<>>
    /\ Len(meta_request) = 1

===========================================================================
